---- MODULE Spec2Model ----
(***************************************************************************)
(* Model of dockerfiles/ws-health-exporter/exporter.py: the periodic       *)
(* cycle update_metrics, the probe check_ws, the lock-guarded readiness    *)
(* flag and the request handlers that read it.                             *)
(*                                                                         *)
(* Threads: the main thread (startup cycle, scheduler start, serve), the   *)
(* scheduler's job thread (one instance of update_metrics at a time: the   *)
(* job is added with the scheduler's default max_instances = 1), and the   *)
(* server's request threads.                                               *)
(***************************************************************************)
EXTENDS Integers, Sequences, FiniteSets, TLC

\* ---------------------------------------------------------------- bounds
MaxUrls == 2
MaxPeers == 2
MaxBlock == 2

Urls == {"ws://a", "ws://b"}
Threads == {"t1", "t2"}

\* ------------------------------------------------------------ JSON values
\* A JSON value of a response field, as json.loads returns it: a bool, an
\* int, a str (standing for every value Python neither compares with nor
\* subtracts from an int: str, null, list, object), or the key is absent.
JBool(b) == [t |-> "bool", v |-> IF b THEN 1 ELSE 0]
JInt(n) == [t |-> "int", v |-> n]
JStr == [t |-> "str", v |-> 0]
Absent == [t |-> "absent", v |-> 0]

JBools == {JBool(TRUE), JBool(FALSE)}
JInts(max) == {JInt(n) : n \in 0..max}
WellFormedHealth ==
  [isSyncing : JBools, peers : JInts(MaxPeers), shouldHavePeers : JBools]
WellFormedSync ==
  [highestBlock : JInts(MaxBlock), currentBlock : JInts(MaxBlock)]
HealthResponses ==
  [isSyncing : JBools \cup {JStr, Absent},
   peers : JInts(MaxPeers) \cup JBools \cup {JStr, Absent},
   shouldHavePeers : JBools \cup {JStr, Absent}]
SyncResponses ==
  [highestBlock : JInts(MaxBlock) \cup {JStr, Absent},
   currentBlock : JInts(MaxBlock) \cup {JStr, Absent}]
NoHealth == [isSyncing |-> Absent, peers |-> Absent, shouldHavePeers |-> Absent]
NoSync == [highestBlock |-> Absent, currentBlock |-> Absent]

\* The responses the nodes give in the specification of the whole system.
HealthSample ==
  {[isSyncing |-> JBool(FALSE), peers |-> JInt(MaxPeers), shouldHavePeers |-> JBool(TRUE)],
   [isSyncing |-> JBool(TRUE), peers |-> JInt(MaxPeers), shouldHavePeers |-> JBool(TRUE)],
   [isSyncing |-> JBool(FALSE), peers |-> JInt(0), shouldHavePeers |-> JBool(FALSE)]}
SyncSample ==
  {[highestBlock |-> JInt(MaxBlock), currentBlock |-> JInt(MaxBlock)],
   [highestBlock |-> JInt(MaxBlock), currentBlock |-> JInt(0)]}

\* ------------------------------------------------------------------ state
VARIABLES
  node_rpc_urls,          \* app_config['node_rpc_urls']
  node_max_unsynchronized_block_drift,
  node_min_peers,
  readiness_status,       \* readiness_status['status']
  lock,                   \* readiness_status['lock']: "free" or its holder
  gauge,                  \* ws_metrics['polkadot_ws_alive']: labelled url -> value
  main_pc,                \* the main thread's position in __main__
  scheduler_started,      \* scheduler.start() was called
  pc,                     \* the cycle's position in update_metrics / check_ws
  idx,                    \* position of the for loop in node_rpc_urls
  status,                 \* update_metrics' local status
  url_probe,              \* the value check_ws returned
  ws,                     \* check_ws' connection: "none", "open", "closed"
  requests,               \* the requests sent on ws, in order
  hc_data,
  sync_data,
  error,                  \* the exception raised inside check_ws' try, or "none"
  verdicts,               \* history: what check_ws returned, this cycle, in order
  probed,                 \* history: the positions probed, this cycle, in order
  writes,                 \* history: writes of readiness_status, this cycle
  completed,              \* history: aggregate of the last completed cycle
  tpc,                    \* each request thread's position
  tval,                   \* what the thread read under the lock
  resp                    \* the response the thread returns

config_vars == <<node_rpc_urls, node_max_unsynchronized_block_drift, node_min_peers>>
probe_vars == <<url_probe, ws, requests, hc_data, sync_data, error>>
cycle_vars == <<pc, idx, status, verdicts, probed, writes, completed>>
main_vars == <<main_pc, scheduler_started>>
thread_vars == <<tpc, tval, resp>>
vars == <<config_vars, readiness_status, lock, gauge, main_vars, cycle_vars,
          probe_vars, thread_vars>>

\* ------------------------------------------------------------ pure parts
\* Sequences of urls of length 0..n (env.list accepts an empty list and
\* repeated urls).
UrlLists(n) == UNION {[1..k -> Urls] : k \in 0..n}

\* int(url_probe)
IntOfBool(b) == IF b THEN 1 ELSE 0

\* all(...) over a sequence of booleans
AndAll(s) == \A i \in 1..Len(s) : s[i]

\* Python compares and subtracts ints and bools; anything else raises.
IsNumber(j) == j.t \in {"int", "bool"}

\* Lines 119-132 of check_ws, on parsed responses: the exception raised
\* ("none" when the lines run to the return) and the value returned.
check_ws_evaluateNoDriftSwitch(hc, sync, max_drift, min_peers) ==
  LET h1 == (hc.isSyncing = JBool(FALSE))
      h2 == h1 /\ hc.peers.v >= min_peers
      drift == sync.highestBlock.v - sync.currentBlock.v
      h3 == h2 /\ drift <= max_drift
  IN  IF hc.isSyncing.t = "absent" THEN [raised |-> "KeyError", value |-> FALSE]
      ELSE IF hc.peers.t = "absent" THEN [raised |-> "KeyError", value |-> FALSE]
      ELSE IF h1 /\ ~IsNumber(hc.peers) THEN [raised |-> "TypeError", value |-> FALSE]
      ELSE IF hc.shouldHavePeers.t = "absent" THEN [raised |-> "KeyError", value |-> FALSE]
      ELSE IF sync.highestBlock.t = "absent" THEN [raised |-> "KeyError", value |-> FALSE]
      ELSE IF sync.currentBlock.t = "absent" THEN [raised |-> "KeyError", value |-> FALSE]
      ELSE IF ~IsNumber(sync.highestBlock) \/ ~IsNumber(sync.currentBlock)
        THEN [raised |-> "TypeError", value |-> FALSE]
      ELSE [raised |-> "none", value |-> h3]

check_ws_evaluateNeedsPeersFlag(hc, sync, max_drift, min_peers) ==
  LET h1 == (hc.isSyncing = JBool(FALSE))
      h2 == h1 /\ hc.peers.v >= min_peers /\ hc.shouldHavePeers = JBool(TRUE)
      drift == sync.highestBlock.v - sync.currentBlock.v
      h3 == IF max_drift > 0 THEN h2 /\ drift <= max_drift ELSE h2
  IN  IF hc.isSyncing.t = "absent" THEN [raised |-> "KeyError", value |-> FALSE]
      ELSE IF hc.peers.t = "absent" THEN [raised |-> "KeyError", value |-> FALSE]
      ELSE IF h1 /\ ~IsNumber(hc.peers) THEN [raised |-> "TypeError", value |-> FALSE]
      ELSE IF hc.shouldHavePeers.t = "absent" THEN [raised |-> "KeyError", value |-> FALSE]
      ELSE IF sync.highestBlock.t = "absent" THEN [raised |-> "KeyError", value |-> FALSE]
      ELSE IF sync.currentBlock.t = "absent" THEN [raised |-> "KeyError", value |-> FALSE]
      ELSE IF ~IsNumber(sync.highestBlock) \/ ~IsNumber(sync.currentBlock)
        THEN [raised |-> "TypeError", value |-> FALSE]
      ELSE [raised |-> "none", value |-> h3]

check_ws_evaluate(hc, sync, max_drift, min_peers) ==
  LET h1 == (hc.isSyncing = JBool(FALSE))                       \* line 120
      h2 == h1 /\ hc.peers.v >= min_peers                       \* line 122
      drift == sync.highestBlock.v - sync.currentBlock.v        \* line 126
      h3 == IF max_drift > 0 THEN h2 /\ drift <= max_drift ELSE h2  \* 128-130
  IN  IF hc.isSyncing.t = "absent" THEN [raised |-> "KeyError", value |-> FALSE]
      ELSE IF hc.peers.t = "absent" THEN [raised |-> "KeyError", value |-> FALSE]
      \* `and` short-circuits: peers is compared only while the summary is true
      ELSE IF h1 /\ ~IsNumber(hc.peers) THEN [raised |-> "TypeError", value |-> FALSE]
      ELSE IF hc.shouldHavePeers.t = "absent" THEN [raised |-> "KeyError", value |-> FALSE]
      ELSE IF sync.highestBlock.t = "absent" THEN [raised |-> "KeyError", value |-> FALSE]
      ELSE IF sync.currentBlock.t = "absent" THEN [raised |-> "KeyError", value |-> FALSE]
      ELSE IF ~IsNumber(sync.highestBlock) \/ ~IsNumber(sync.currentBlock)
        THEN [raised |-> "TypeError", value |-> FALSE]
      ELSE [raised |-> "none", value |-> h3]

\* ------------------------------------------------------------------ Init
NoSamples == << >>
NoResponse == [route |-> "none", body |-> "", code |-> 0, samples |-> NoSamples]

\* The state at the first statement of __main__ after parse_config
\* (line 190), for the thresholds and url list parse_config accepted.
InitWith(urls, drifts, peers) ==
  /\ node_rpc_urls \in urls
  /\ node_max_unsynchronized_block_drift \in drifts
  /\ node_min_peers \in peers
  /\ readiness_status = FALSE                                   \* line 28
  /\ lock = "free"
  /\ gauge = NoSamples                                          \* line 22: no label yet
  /\ main_pc = "update_metrics"
  /\ scheduler_started = FALSE
  /\ pc = "idle"
  /\ idx = 0
  /\ status = TRUE
  /\ url_probe = FALSE
  /\ ws = "none"
  /\ requests = << >>
  /\ hc_data = NoHealth
  /\ sync_data = NoSync
  /\ error = "none"
  /\ verdicts = << >>
  /\ probed = << >>
  /\ writes = 0
  /\ completed = "none"
  /\ tpc = [t \in Threads |-> "idle"]
  /\ tval = [t \in Threads |-> FALSE]
  /\ resp = [t \in Threads |-> NoResponse]

Init == InitWith(UrlLists(MaxUrls), {1}, {1})

\* At most one endpoint, every threshold (env.int accepts negative numbers
\* too).
InitProbe == InitWith(UrlLists(1), -1..MaxBlock, 0..(MaxPeers + 1))

\* ------------------------------------------------------- readiness state
\* write_readiness_status, line 51: `with readiness_status['lock']`
WriteAcquireNoLock ==
  /\ pc = "write_acquire"
  /\ lock' = "cycle"
  /\ pc' = "write_assign"
  /\ UNCHANGED <<config_vars, readiness_status, gauge, main_vars, idx, status,
                 verdicts, probed, writes, completed, probe_vars, thread_vars>>

WriteAcquire ==
  /\ pc = "write_acquire"
  /\ lock = "free"
  /\ lock' = "cycle"
  /\ pc' = "write_assign"
  /\ UNCHANGED <<config_vars, readiness_status, gauge, main_vars, idx, status,
                 verdicts, probed, writes, completed, probe_vars, thread_vars>>

\* line 52: readiness_status['status'] = status
WriteAssign ==
  /\ pc = "write_assign"
  /\ readiness_status' = status
  /\ writes' = writes + 1
  /\ completed' = IF AndAll(verdicts) THEN "true" ELSE "false"
  /\ pc' = "write_release"
  /\ UNCHANGED <<config_vars, lock, gauge, main_vars, idx, status, verdicts,
                 probed, probe_vars, thread_vars>>

\* leaving the with block releases the lock; update_metrics returns, and
\* the startup call (line 190) returns to __main__
WriteRelease ==
  /\ pc = "write_release"
  /\ lock' = "free"
  /\ pc' = "idle"
  /\ main_pc' = IF main_pc = "update_metrics" THEN "scheduler" ELSE main_pc
  /\ UNCHANGED <<config_vars, readiness_status, gauge, scheduler_started, idx,
                 status, verdicts, probed, writes, completed, probe_vars,
                 thread_vars>>

\* ------------------------------------------------------------- check_ws
\* What no step of check_ws touches.
probe_frame == <<config_vars, readiness_status, lock, gauge, main_vars, idx,
                 status, verdicts, writes, completed, thread_vars>>

\* line 113: ws = create_connection(node_url, timeout=ws_timeout)
CheckWsConnect ==
  /\ pc = "connect"
  /\ probed' = Append(probed, idx)
  /\ \/ /\ ws' = "open"
        /\ pc' = "send_health"
        /\ UNCHANGED error
     \/ /\ ws' = "none"
        /\ error' = "connect"
        /\ pc' = "except"
  /\ UNCHANGED <<probe_frame, url_probe, requests, hc_data, sync_data>>

\* line 114: ws.send(system_health)
CheckWsSendHealthPipelined ==
  /\ pc = "send_health"
  /\ \/ /\ requests' = <<"system_health", "system_syncState">>
        /\ pc' = "recv_health"
        /\ UNCHANGED error
     \/ /\ error' = "send"
        /\ pc' = "except"
        /\ UNCHANGED requests
  /\ UNCHANGED <<probe_frame, probed, url_probe, ws, hc_data, sync_data>>

CheckWsSendHealth ==
  /\ pc = "send_health"
  /\ \/ /\ requests' = Append(requests, "system_health")
        /\ pc' = "recv_health"
        /\ UNCHANGED error
     \/ /\ error' = "send"
        /\ pc' = "except"
        /\ UNCHANGED requests
  /\ UNCHANGED <<probe_frame, probed, url_probe, ws, hc_data, sync_data>>

\* line 115: hc_data = json.loads(ws.recv()); the node answers with one of
\* `answers`, or recv times out or fails, or the text is not JSON
CheckWsRecvHealth(answers) ==
  /\ pc = "recv_health"
  /\ \/ /\ hc_data' \in answers
        /\ pc' = "send_sync"
        /\ UNCHANGED error
     \/ /\ error' \in {"recv", "json"}
        /\ pc' = "except"
        /\ UNCHANGED hc_data
  /\ UNCHANGED <<probe_frame, probed, url_probe, ws, requests, sync_data>>

\* line 116: ws.send(system_syncState)
CheckWsSendSync ==
  /\ pc = "send_sync"
  /\ \/ /\ requests' = Append(requests, "system_syncState")
        /\ pc' = "recv_sync"
        /\ UNCHANGED error
     \/ /\ error' = "send"
        /\ pc' = "except"
        /\ UNCHANGED requests
  /\ UNCHANGED <<probe_frame, probed, url_probe, ws, hc_data, sync_data>>

\* line 117: sync_data = json.loads(ws.recv())
CheckWsRecvSync(answers) ==
  /\ pc = "recv_sync"
  /\ \/ /\ sync_data' \in answers
        /\ pc' = "close"
        /\ UNCHANGED error
     \/ /\ error' \in {"recv", "json"}
        /\ pc' = "except"
        /\ UNCHANGED sync_data
  /\ UNCHANGED <<probe_frame, probed, url_probe, ws, requests, hc_data>>

\* line 118: ws.close(), inside the try
CheckWsClose ==
  /\ pc = "close"
  /\ \/ /\ ws' = "closed"
        /\ pc' = "evaluate"
        /\ UNCHANGED error
     \/ /\ error' = "close"
        /\ pc' = "except"
        /\ UNCHANGED ws
  /\ UNCHANGED <<probe_frame, probed, url_probe, requests, hc_data, sync_data>>

\* lines 119-132: the verdict is returned, or a KeyError / TypeError raised
CheckWsEvaluate ==
  /\ pc = "evaluate"
  /\ LET r == check_ws_evaluate(hc_data, sync_data,
                                node_max_unsynchronized_block_drift, node_min_peers)
     IN  \/ /\ r.raised = "none"
            /\ url_probe' = r.value
            /\ pc' = "returned"
            /\ UNCHANGED error
         \/ /\ r.raised # "none"
            /\ error' = r.raised
            /\ pc' = "except"
            /\ UNCHANGED url_probe
  /\ UNCHANGED <<probe_frame, probed, ws, requests, hc_data, sync_data>>

\* lines 133-140: except Exception: log, return False
CheckWsExceptReturnsSummary ==
  /\ pc = "except"
  /\ url_probe' = TRUE
  /\ pc' = "returned"
  /\ UNCHANGED <<probe_frame, probed, ws, requests, hc_data, sync_data, error>>

CheckWsExceptPropagates ==
  /\ pc = "except"
  /\ url_probe' = FALSE
  /\ pc' = "idle"
  /\ UNCHANGED <<probe_frame, probed, ws, requests, hc_data, sync_data, error>>

CheckWsExcept ==
  /\ pc = "except"
  /\ url_probe' = FALSE
  /\ pc' = "returned"
  /\ UNCHANGED <<probe_frame, probed, ws, requests, hc_data, sync_data, error>>

\* -------------------------------------------------------- update_metrics
\* update_metrics is called at startup (line 190) and by the scheduler's
\* job (line 192), one instance at a time.
CanStartCycle == pc = "idle" /\ (main_pc = "update_metrics" \/ scheduler_started)

\* lines 144-145: no url, return
UpdateMetricsEmptyWrites ==
  /\ CanStartCycle
  /\ node_rpc_urls = << >>
  /\ readiness_status' = TRUE
  /\ main_pc' = IF main_pc = "update_metrics" THEN "scheduler" ELSE main_pc
  /\ UNCHANGED <<config_vars, lock, gauge, scheduler_started,
                 cycle_vars, probe_vars, thread_vars>>

UpdateMetricsEmpty ==
  /\ CanStartCycle
  /\ node_rpc_urls = << >>
  /\ main_pc' = IF main_pc = "update_metrics" THEN "scheduler" ELSE main_pc
  /\ UNCHANGED <<config_vars, readiness_status, lock, gauge, scheduler_started,
                 cycle_vars, probe_vars, thread_vars>>

\* lines 147-148: status = True, the loop starts at the first url
UpdateMetricsBeginLocked ==
  /\ CanStartCycle
  /\ node_rpc_urls # << >>
  /\ lock = "free"
  /\ lock' = "cycle"
  /\ status' = TRUE
  /\ idx' = 1
  /\ verdicts' = << >>
  /\ probed' = << >>
  /\ writes' = 0
  /\ pc' = "connect"
  /\ UNCHANGED <<config_vars, readiness_status, gauge, main_vars,
                 completed, probe_vars, thread_vars>>

UpdateMetricsBegin ==
  /\ CanStartCycle
  /\ node_rpc_urls # << >>
  /\ status' = TRUE
  /\ idx' = 1
  /\ verdicts' = << >>
  /\ probed' = << >>
  /\ writes' = 0
  /\ pc' = "connect"
  /\ UNCHANGED <<config_vars, readiness_status, lock, gauge, main_vars,
                 completed, probe_vars, thread_vars>>

\* .labels(url=url).set(v)
SetGaugeAllLabels(g, url, v) ==
  [u \in DOMAIN g \cup {url} |-> v]

SetGauge(g, url, v) ==
  [u \in DOMAIN g \cup {url} |-> IF u = url THEN v ELSE g[u]]

\* What the loop does after a probe whatever it then does with the verdict:
\* the probe's locals are gone and the verdict is on record.
AfterProbe ==
  /\ pc = "returned"
  /\ verdicts' = Append(verdicts, url_probe)
  /\ requests' = << >>
  /\ hc_data' = NoHealth
  /\ sync_data' = NoSync
  /\ error' = "none"
  /\ UNCHANGED <<config_vars, lock, main_vars, probed, writes, completed,
                 url_probe, ws, thread_vars>>

\* the for loop: the next url, or line 155 after the last
LoopNext ==
  IF idx < Len(node_rpc_urls)
    THEN idx' = idx + 1 /\ pc' = "connect"
    ELSE idx' = idx /\ pc' = "write_acquire"

\* lines 153-154 and the loop: the gauge of the url, the fold into status
RecordProbeLastWins ==
  /\ AfterProbe
  /\ gauge' = SetGauge(gauge, node_rpc_urls[idx], IntOfBool(url_probe))
  /\ status' = url_probe
  /\ LoopNext
  /\ UNCHANGED readiness_status

RecordProbePublishes ==
  /\ AfterProbe
  /\ gauge' = SetGauge(gauge, node_rpc_urls[idx], IntOfBool(url_probe))
  /\ status' = (status /\ url_probe)
  /\ LoopNext
  /\ readiness_status' = status'

RecordProbeBreaks ==
  /\ AfterProbe
  /\ gauge' = SetGauge(gauge, node_rpc_urls[idx], IntOfBool(url_probe))
  /\ status' = (status /\ url_probe)
  /\ IF url_probe THEN LoopNext ELSE idx' = idx /\ pc' = "write_acquire"
  /\ UNCHANGED readiness_status

RecordProbeBatched ==
  /\ AfterProbe
  /\ gauge' = IF idx < Len(node_rpc_urls)
                THEN gauge
                ELSE [u \in {node_rpc_urls[i] : i \in 1..idx} |->
                        IntOfBool(verdicts'[CHOOSE i \in 1..idx :
                                    /\ node_rpc_urls[i] = u
                                    /\ \A j \in (i + 1)..idx : node_rpc_urls[j] # u])]
  /\ status' = (status /\ url_probe)
  /\ LoopNext
  /\ UNCHANGED readiness_status

RecordProbe ==
  /\ AfterProbe
  /\ gauge' = SetGauge(gauge, node_rpc_urls[idx], IntOfBool(url_probe))  \* 153
  /\ status' = (status /\ url_probe)                                     \* 154
  /\ LoopNext
  /\ UNCHANGED readiness_status

\* --------------------------------------------------------------- __main__
\* lines 191-193: the scheduler is created, given the job and started
SchedulerStartEarly ==
  /\ main_pc \in {"update_metrics", "scheduler"}
  /\ ~scheduler_started
  /\ scheduler_started' = TRUE
  /\ main_pc' = IF main_pc = "scheduler" THEN "serve" ELSE main_pc
  /\ UNCHANGED <<config_vars, readiness_status, lock, gauge, cycle_vars,
                 probe_vars, thread_vars>>

SchedulerStart ==
  /\ main_pc = "scheduler"
  /\ scheduler_started' = TRUE
  /\ main_pc' = "serve"
  /\ UNCHANGED <<config_vars, readiness_status, lock, gauge, cycle_vars,
                 probe_vars, thread_vars>>

\* line 195: serve(app, ...): requests are accepted from here on
Serve ==
  /\ main_pc = "serve"
  /\ main_pc' = "serving"
  /\ UNCHANGED <<config_vars, readiness_status, lock, gauge, scheduler_started,
                 cycle_vars, probe_vars, thread_vars>>

\* ------------------------------------------------------- request threads
\* What no request handler touches.
handler_frame == <<config_vars, readiness_status, gauge, main_vars, cycle_vars,
                   probe_vars>>

\* lines 158-163: GET /
SiteMap(t) ==
  /\ main_pc = "serving"
  /\ tpc[t] = "idle"
  /\ resp' = [resp EXCEPT ![t] = [route |-> "/", body |-> "Main Page", code |-> 200,
                                  samples |-> NoSamples]]
  /\ tpc' = [tpc EXCEPT ![t] = "done"]
  /\ UNCHANGED <<handler_frame, lock, tval>>

\* lines 166-168: GET /metrics renders the registry as it is now
Metrics(t) ==
  /\ main_pc = "serving"
  /\ tpc[t] = "idle"
  /\ resp' = [resp EXCEPT ![t] = [route |-> "/metrics", body |-> "", code |-> 200,
                                  samples |-> gauge]]
  /\ tpc' = [tpc EXCEPT ![t] = "done"]
  /\ UNCHANGED <<handler_frame, lock, tval>>

\* line 173: GET /health/readiness calls read_readiness_status
HealthReadinessBegin(t) ==
  /\ main_pc = "serving"
  /\ tpc[t] = "idle"
  /\ tpc' = [tpc EXCEPT ![t] = "read_acquire"]
  /\ UNCHANGED <<handler_frame, lock, tval, resp>>

\* read_readiness_status, line 46: `with readiness_status['lock']`
ReadAcquire(t) ==
  /\ tpc[t] = "read_acquire"
  /\ lock = "free"
  /\ lock' = t
  /\ tpc' = [tpc EXCEPT ![t] = "read_return"]
  /\ UNCHANGED <<handler_frame, tval, resp>>

\* line 47: the value is read under the lock, which the return releases
ReadReturn(t) ==
  /\ tpc[t] = "read_return"
  /\ tval' = [tval EXCEPT ![t] = readiness_status]
  /\ lock' = "free"
  /\ tpc' = [tpc EXCEPT ![t] = "respond"]
  /\ UNCHANGED <<handler_frame, resp>>

\* lines 173-176: UP and 200 if the value read is true, else DOWN and 500
HealthReadinessRespondAlwaysUp(t) ==
  /\ tpc[t] = "respond"
  /\ resp' = [resp EXCEPT ![t] =
                [route |-> "/health/readiness", body |-> "UP", code |-> 200,
                 samples |-> NoSamples]]
  /\ tpc' = [tpc EXCEPT ![t] = "done"]
  /\ UNCHANGED <<handler_frame, lock, tval>>

HealthReadinessRespond(t) ==
  /\ tpc[t] = "respond"
  /\ resp' = [resp EXCEPT ![t] =
                IF tval[t]
                  THEN [route |-> "/health/readiness", body |-> "UP", code |-> 200,
                        samples |-> NoSamples]
                  ELSE [route |-> "/health/readiness", body |-> "DOWN", code |-> 500,
                        samples |-> NoSamples]]
  /\ tpc' = [tpc EXCEPT ![t] = "done"]
  /\ UNCHANGED <<handler_frame, lock, tval>>

\* the response is sent and the thread takes the next request
Finish(t) ==
  /\ tpc[t] = "done"
  /\ resp' = [resp EXCEPT ![t] = NoResponse]
  /\ tval' = [tval EXCEPT ![t] = FALSE]
  /\ tpc' = [tpc EXCEPT ![t] = "idle"]
  /\ UNCHANGED <<handler_frame, lock>>

\* ---------------------------------------------------------- specifications
CycleStep(health, sync) ==
  \/ UpdateMetricsEmpty
  \/ UpdateMetricsBegin
  \/ CheckWsConnect
  \/ CheckWsSendHealth
  \/ CheckWsRecvHealth(health)
  \/ CheckWsSendSync
  \/ CheckWsRecvSync(sync)
  \/ CheckWsClose
  \/ CheckWsEvaluate
  \/ CheckWsExcept
  \/ RecordProbe
  \/ WriteAcquire
  \/ WriteAssign
  \/ WriteRelease

MainStep == SchedulerStart \/ Serve

ThreadStep(t) ==
  \/ SiteMap(t)
  \/ Metrics(t)
  \/ HealthReadinessBegin(t)
  \/ ReadAcquire(t)
  \/ ReadReturn(t)
  \/ HealthReadinessRespond(t)
  \/ Finish(t)

\* The whole program.
Next ==
  \/ CycleStep(HealthSample, SyncSample)
  \/ MainStep
  \/ \E t \in Threads : ThreadStep(t)

Spec == Init /\ [][Next]_vars

\* One call of update_metrics over one endpoint, the node answering with
\* every response of the bounded sets.
NextProbe == CycleStep(HealthResponses, SyncResponses)

SpecProbe == InitProbe /\ [][NextProbe]_vars

\* The whole program under the scheduling the code relies on: a step of a
\* running cycle that can be taken is taken (each probe call returns), a
\* thread inside the lock leaves it, and the lock is fair to the writer.
Fairness ==
  /\ WF_vars(CheckWsConnect \/ CheckWsSendHealth \/ CheckWsRecvHealth(HealthSample)
             \/ CheckWsSendSync \/ CheckWsRecvSync(SyncSample) \/ CheckWsClose
             \/ CheckWsEvaluate \/ CheckWsExcept \/ RecordProbe
             \/ WriteAssign \/ WriteRelease)
  /\ SF_vars(WriteAcquire)
  /\ \A t \in Threads : WF_vars(ReadReturn(t))

\* The threads that contend for the lock: readiness requests only.
ReadinessStep(t) ==
  \/ HealthReadinessBegin(t)
  \/ ReadAcquire(t)
  \/ ReadReturn(t)
  \/ HealthReadinessRespond(t)
  \/ Finish(t)

NextLive ==
  \/ CycleStep(HealthSample, SyncSample)
  \/ MainStep
  \/ \E t \in Threads : ReadinessStep(t)

SpecLive == Init /\ [][NextLive]_vars /\ Fairness

\* The same program when a probe may stall for ever: nothing is assumed of
\* the cycle outside the lock; the writer inside the lock leaves it, a
\* thread's acquire is served (the lock is fair) and a handler that can
\* go on goes on.
FairnessStall ==
  /\ WF_vars(WriteAssign \/ WriteRelease)
  /\ \A t \in Threads :
       /\ SF_vars(ReadAcquire(t))
       /\ WF_vars(ReadReturn(t))
       /\ WF_vars(HealthReadinessRespond(t))

SpecStall == Init /\ [][NextLive]_vars /\ FairnessStall

\* ------------------------------------------------------------------ claims
CycleWritten == pc = "write_release" \/ (pc = "idle" /\ writes = 1)
CycleRunning == pc # "idle"
Drift(sync) == sync.highestBlock.v - sync.currentBlock.v
LineReturned == pc = "returned" /\ error = "none"

\* C1: after a cycle over a non-empty url list has written, readiness_status
\* is true exactly when every check_ws call of that cycle returned true,
\* one verdict per configured url.
C1_ReadinessIsAndOfVerdicts ==
  CycleWritten =>
    /\ Len(verdicts) = Len(node_rpc_urls)
    /\ readiness_status = AndAll(verdicts)

C1_Witness ==
  /\ pc = "write_release"
  /\ verdicts = <<FALSE, TRUE>>
  /\ readiness_status = FALSE

\* C2: readiness_status is false while no cycle has written, and otherwise
\* the aggregate of the last completed cycle, also while the next cycle is
\* running and its partial aggregate differs.
C2_ReadinessIsLastCompleted ==
  readiness_status = (completed = "true")

C2_Witness ==
  /\ completed = "true"
  /\ CycleRunning
  /\ Len(verdicts) = 1
  /\ status = FALSE
  /\ idx = 2
  /\ readiness_status = TRUE

\* C3 as stated: for well-formed responses the verdict returned at line 132
\* is (isSyncing is false) and (peers >= min peers) and (max drift = 0 or
\* drift <= max drift).
C3_Original ==
  (LineReturned /\ hc_data \in WellFormedHealth /\ sync_data \in WellFormedSync) =>
    url_probe = (/\ hc_data.isSyncing = JBool(FALSE)
                 /\ hc_data.peers.v >= node_min_peers
                 /\ \/ node_max_unsynchronized_block_drift = 0
                    \/ Drift(sync_data) <= node_max_unsynchronized_block_drift)

\* C3 amended: for well-formed responses the verdict returned at line 132
\* is (isSyncing is false) and (peers >= min peers) and (max drift <= 0 or
\* drift <= max drift): zero and every negative threshold disable the
\* drift clause.
C3_VerdictFormula ==
  (LineReturned /\ hc_data \in WellFormedHealth /\ sync_data \in WellFormedSync) =>
    url_probe = (/\ hc_data.isSyncing = JBool(FALSE)
                 /\ hc_data.peers.v >= node_min_peers
                 /\ \/ node_max_unsynchronized_block_drift <= 0
                    \/ Drift(sync_data) <= node_max_unsynchronized_block_drift)

C3_Witness ==
  /\ LineReturned
  /\ hc_data \in WellFormedHealth
  /\ sync_data \in WellFormedSync
  /\ node_max_unsynchronized_block_drift = 0
  /\ Drift(sync_data) = MaxBlock
  /\ hc_data.peers.v = node_min_peers
  /\ url_probe = TRUE

HasAbsent(r) == \E f \in DOMAIN r : r[f].t = "absent"
ProbeFailed == error # "none" \/ HasAbsent(hc_data) \/ HasAbsent(sync_data)

WriterInside == pc \in {"write_assign", "write_release"}
ReaderInside(t) == tpc[t] = "read_return"
Inside == {t \in Threads : ReaderInside(t)} \cup (IF WriterInside THEN {"cycle"} ELSE {})

C5_MutualExclusion ==
  /\ Cardinality(Inside) <= 1
  /\ \A h \in Inside : lock = h
  /\ Inside = {} => lock = "free"

C5_Witness ==
  /\ pc = "write_assign"
  /\ \A t \in Threads : tpc[t] = "read_acquire"
  /\ lock = "cycle"

\* C6: in a cycle the urls are probed once each in configured order,
\* whatever the earlier verdicts, and a url's gauge is the verdict of its
\* own (last) probe in the cycle.
InOrder(s) == \A i \in 1..Len(s) : s[i] = i
LastOf(i, n) == \A j \in (i + 1)..n : node_rpc_urls[j] # node_rpc_urls[i]

C6_EveryUrlProbed ==
  /\ InOrder(probed)
  /\ Len(verdicts) <= Len(probed)
  /\ Len(probed) <= Len(verdicts) + 1
  /\ (CycleWritten \/ pc \in {"write_acquire", "write_assign"}) =>
       /\ Len(probed) = Len(node_rpc_urls)
       /\ Len(verdicts) = Len(node_rpc_urls)
  /\ \A i \in 1..Len(verdicts) :
       LastOf(i, Len(verdicts)) =>
         /\ node_rpc_urls[i] \in DOMAIN gauge
         /\ gauge[node_rpc_urls[i]] = IntOfBool(verdicts[i])

C6_Witness ==
  /\ pc = "write_release"
  /\ node_rpc_urls = <<"ws://a", "ws://b">>
  /\ verdicts = <<FALSE, TRUE>>
  /\ probed = <<1, 2>>
  /\ gauge["ws://a"] = 0
  /\ gauge["ws://b"] = 1
  /\ readiness_status = FALSE

\* C7: with an empty url list no cycle probes, sets a gauge or writes:
\* readiness_status keeps its initial value.
C7_EmptyListNoOp ==
  node_rpc_urls = << >> =>
    /\ readiness_status = FALSE
    /\ gauge = NoSamples
    /\ probed = << >>
    /\ writes = 0
    /\ pc = "idle"
    /\ lock \in {"free"} \cup Threads

C7_Witness ==
  /\ node_rpc_urls = << >>
  /\ scheduler_started
  /\ \E t \in Threads : tpc[t] = "done" /\ resp[t].body = "DOWN"

\* C9: the scheduler is started, and requests are served, only after the
\* startup call of update_metrics has returned, its write included.
StartupCycleDone ==
  /\ main_pc # "update_metrics"
  /\ node_rpc_urls # << >> => completed # "none"

C9_StartupCycleFirst ==
  /\ scheduler_started => StartupCycleDone
  /\ main_pc \in {"serve", "serving"} => scheduler_started
  /\ (\E t \in Threads : tpc[t] # "idle") => main_pc = "serving"

C9_Witness ==
  /\ main_pc = "serving"
  /\ node_rpc_urls # << >>
  /\ completed = "false"
  /\ \E t \in Threads : tpc[t] = "done"

\* C10: readiness_status changes only in the cycle's write, and the
\* readiness handler answers UP / 200 exactly when the value it read is
\* true, DOWN / 500 otherwise.
ReadinessAnswered(t) == tpc[t] = "done" /\ resp[t].route = "/health/readiness"

C10_OnlyCycleWrites ==
  /\ [][readiness_status' # readiness_status =>
          (pc = "write_assign" /\ pc' = "write_release" /\ UNCHANGED thread_vars)]_vars
  /\ [](\A t \in Threads : ReadinessAnswered(t) =>
          \/ (tval[t] /\ resp[t].body = "UP" /\ resp[t].code = 200)
          \/ (~tval[t] /\ resp[t].body = "DOWN" /\ resp[t].code = 500))

C10_Witness ==
  /\ ReadinessAnswered("t1") /\ resp["t1"].body = "UP"
  /\ ReadinessAnswered("t2") /\ resp["t2"].body = "DOWN"
  /\ CycleRunning

\* C8: a cycle that has started ends, and it ends only after writing
\* readiness_status exactly once, whatever its probes returned.
C8_CycleCompletesAndWrites ==
  /\ CycleRunning ~> (pc = "idle" /\ writes = 1)
  /\ [][(CycleRunning /\ pc' = "idle") => writes' = 1]_vars
  /\ [](writes <= 1)

C8_Witness ==
  /\ pc = "idle"
  /\ writes = 1
  /\ verdicts = <<FALSE, FALSE>>
  /\ scheduler_started
  /\ readiness_status = FALSE

BothWellFormed == hc_data \in WellFormedHealth /\ sync_data \in WellFormedSync
VerdictOfResponses ==
  check_ws_evaluate(hc_data, sync_data, node_max_unsynchronized_block_drift,
                    node_min_peers).value

\* C11: when both responses were received and are well-formed, check_ws
\* returns the verdict those responses determine, whether or not ws.close()
\* fails.
C11_CloseFailureKeepsVerdict ==
  (pc = "returned" /\ BothWellFormed) => url_probe = VerdictOfResponses

\* The labels whose sample a step sets or changes.
GaugeChanged ==
  {u \in DOMAIN gauge' : u \notin DOMAIN gauge \/ gauge'[u] # gauge[u]}
MetricsAnswered(t) == tpc[t] = "done" /\ resp[t].route = "/metrics"

\* C12: the gauges are not updated as a group: a step sets one url's gauge
\* only, that of the url just probed, and leaves readiness_status alone;
\* /metrics renders the gauges as they are at the request, so a read during
\* a cycle (the witness) shows one gauge of the running cycle, one of the
\* previous cycle and the previous cycle's readiness.
C12_GaugesSetOneByOne ==
  /\ [][gauge' # gauge =>
          /\ pc = "returned"
          /\ GaugeChanged = {node_rpc_urls[idx]}
          /\ readiness_status' = readiness_status]_vars
  /\ [][\A t \in Threads :
          (tpc[t] = "idle" /\ resp'[t].route = "/metrics") => resp'[t].samples = gauge]_vars

C12_Witness ==
  /\ node_rpc_urls = <<"ws://a", "ws://b">>
  /\ completed = "true"
  /\ readiness_status = TRUE
  /\ CycleRunning
  /\ verdicts = <<FALSE>>
  /\ gauge = ("ws://a" :> 0 @@ "ws://b" :> 1)
  /\ \E t \in Threads : MetricsAnswered(t) /\ resp[t].samples = gauge

\* C13: a probe sends system_health, receives, sends system_syncState,
\* receives, closes, in that order on one open connection; the second
\* request follows the first response, at most two requests are sent, and
\* after a failing step only the handler runs.
C13_ProtocolOrder ==
  /\ [](/\ pc \in {"connect", "send_health"} => requests = << >>
        /\ pc \in {"recv_health", "send_sync"} => requests = <<"system_health">>
        /\ pc \in {"recv_sync", "close", "evaluate"} =>
             requests = <<"system_health", "system_syncState">>
        /\ pc \in {"send_health", "recv_health", "send_sync", "recv_sync", "close"} =>
             (ws = "open" /\ error = "none")
        /\ pc = "evaluate" => ws = "closed"
        /\ Len(requests) <= 2)
  /\ [][(pc' = "send_sync" /\ pc # "send_sync") =>
          (pc = "recv_health" /\ hc_data' \in HealthResponses /\ error' = "none")]_vars
  /\ [][Len(requests') > Len(requests) =>
          \/ (pc = "send_health" /\ requests' = <<"system_health">>)
          \/ (pc = "send_sync" /\ requests' = <<"system_health", "system_syncState">>)]_vars
  /\ [][(error = "none" /\ error' # "none") =>
          (pc' = "except" /\ requests' = requests /\ hc_data' = hc_data
             /\ sync_data' = sync_data /\ (ws' = ws \/ pc = "connect"))]_vars
  /\ [][pc = "except" =>
          (pc' = "returned" /\ requests' = requests /\ ws' = ws /\ url_probe' = FALSE)]_vars

C13_Witness ==
  /\ pc = "returned"
  /\ error = "recv"
  /\ requests = <<"system_health">>
  /\ sync_data = NoSync
  /\ ws = "open"

\* The results check_ws has returned in this cycle, in order: those the
\* loop has stored and the one it is about to store.
Returned == IF pc = "returned" THEN Append(verdicts, url_probe) ELSE verdicts

\* C14 as stated: a url's gauge always equals the result of the most
\* recent completed probe of that url.
C14_Original ==
  \A i \in 1..Len(Returned) :
    (LastOf(i, Len(Returned)) /\ node_rpc_urls[i] \in DOMAIN gauge) =>
      gauge[node_rpc_urls[i]] = IntOfBool(Returned[i])

\* C14 amended: every gauge value is 0 or 1; a url's gauge equals the
\* result of its most recent probe that update_metrics has stored (line
\* 153), so it lags by the one statement between check_ws returning and
\* line 153; and a gauge changes only in that statement, for the url just
\* probed, to that probe's result.
C14_GaugeIsLastStoredVerdict ==
  /\ [](\A u \in DOMAIN gauge : gauge[u] \in {0, 1})
  /\ [](\A i \in 1..Len(verdicts) :
          LastOf(i, Len(verdicts)) =>
            /\ node_rpc_urls[i] \in DOMAIN gauge
            /\ gauge[node_rpc_urls[i]] = IntOfBool(verdicts[i]))
  /\ [][gauge' # gauge =>
          /\ pc = "returned"
          /\ GaugeChanged = {node_rpc_urls[idx]}
          /\ gauge'[node_rpc_urls[idx]] = IntOfBool(url_probe)]_vars

C14_Witness ==
  /\ node_rpc_urls = <<"ws://a", "ws://a">>
  /\ verdicts = <<TRUE, FALSE>>
  /\ gauge = ("ws://a" :> 0)
  /\ pc = "write_acquire"

\* The same health response with the other boolean in shouldHavePeers.
FlipShouldHavePeers(hc) ==
  [hc EXCEPT !.shouldHavePeers = JBool(hc.shouldHavePeers.v = 0)]

\* C15: for well-formed responses, the verdict check_ws returns is the one
\* it returns for the responses that differ only in shouldHavePeers, under
\* the same thresholds.
C15_ShouldHavePeersIgnored ==
  (LineReturned /\ BothWellFormed) =>
    LET other == check_ws_evaluate(FlipShouldHavePeers(hc_data), sync_data,
                                   node_max_unsynchronized_block_drift, node_min_peers)
    IN  other.raised = "none" /\ other.value = url_probe

C15_Witness ==
  /\ LineReturned
  /\ BothWellFormed
  /\ hc_data.shouldHavePeers = JBool(FALSE)
  /\ hc_data.peers.v = 0
  /\ url_probe = TRUE

ProbeInProgress ==
  pc \in {"connect", "send_health", "recv_health", "send_sync", "recv_sync",
          "close", "evaluate", "except", "returned"}

\* C16: the lock is held only around the read (line 47) or the assignment
\* (line 52), never during a probe; the read returns the value last
\* written and releases the lock; and a readiness request that has started
\* is answered even if the cycle never takes another step outside the lock.
C16_LockOnlyAroundAccess ==
  /\ [](lock = "cycle" => WriterInside)
  /\ [](ProbeInProgress => lock # "cycle")
  /\ [](\A t \in Threads : lock = t => ReaderInside(t))
  /\ [][\A t \in Threads :
          (ReaderInside(t) /\ tpc'[t] # tpc[t]) =>
            (lock' = "free" /\ tval'[t] = (completed = "true"))]_vars
  /\ \A t \in Threads : (tpc[t] = "read_acquire") ~> ReadinessAnswered(t)

C16_Witness ==
  /\ pc = "recv_health"
  /\ completed = "true"
  /\ tpc["t1"] = "read_return"
  /\ lock = "t1"
  /\ ReadinessAnswered("t2")
  /\ resp["t2"].body = "UP"

\* C17: when check_ws has returned, the connection it opened is closed, on
\* the success path and on every failure path.
C17_ConnectionClosedAtReturn ==
  pc = "returned" => ws # "open"

BetweenCycles == pc = "idle" /\ completed # "none"
AllGaugesOne ==
  \A i \in 1..Len(node_rpc_urls) :
    node_rpc_urls[i] \in DOMAIN gauge /\ gauge[node_rpc_urls[i]] = 1
DistinctUrls ==
  \A i, j \in 1..Len(node_rpc_urls) : node_rpc_urls[i] = node_rpc_urls[j] => i = j

\* C18 as stated: between cycles, after a completed cycle, readiness_status
\* is true exactly when every configured url's gauge is 1.
C18_Original ==
  BetweenCycles => (readiness_status <=> AllGaugesOne)

\* C18 amended: between cycles, after a completed cycle, readiness_status
\* true implies that every configured url's gauge is 1, and the converse
\* holds when no url is configured twice (a repeated url's gauge keeps only
\* the result of its last probe).
C18_ReadinessAgreesWithGauges ==
  BetweenCycles =>
    /\ readiness_status => AllGaugesOne
    /\ DistinctUrls => (readiness_status <=> AllGaugesOne)

C18_Witness ==
  /\ BetweenCycles
  /\ node_rpc_urls = <<"ws://a", "ws://b">>
  /\ gauge = ("ws://a" :> 1 @@ "ws://b" :> 0)
  /\ readiness_status = FALSE
  /\ scheduler_started

====
